---- MODULE Spec2Model ----
(***************************************************************************)
(* AsyncScrollingMessage (src/AsyncScrollingMessage.hpp): a message is     *)
(* split by generateMessages into a singly linked chain of chunk objects,  *)
(* and insertNext splices one chain into another.                          *)
(*                                                                         *)
(* The heap is a sequence of objects; a pointer is an index into it and    *)
(* NULL is 0.  generateMessages is modelled statement by statement (entry, *)
(* one action per loop iteration, loop exit); insertNext and setNext are   *)
(* single-threaded calls made by the sketch between two generateMessages   *)
(* calls.                                                                  *)
(***************************************************************************)
EXTENDS Integers, Sequences, FiniteSets, TLC

\* ------------------------------------------------------------------ bounds

\* longest message the sketch passes to generateMessages
MaxLen == 4
\* widest font (font.width ranges over 1..MaxFontWidth)
MaxFontWidth == 2
\* widest matrix (matrix.width() ranges over font.width..MaxMatrixWidth)
MaxMatrixWidth == 2
\* largest animMaxChars argument (ranges over font.width..MaxAnimChars)
MaxAnimChars == 2
\* number of objects the heap can hold
MaxHeap == 4
\* number of insertNext calls that return
MaxInserts == 1

\* ------------------------------------------------------------ basic values

NULL == 0

\* Arduino's min(a, b)
Min(a, b) == IF a < b THEN a ELSE b

\* The text the sketch scrolls: character codes 'A', 'B', 'C', ... so that
\* every position of a message is told apart from every other.
Text(len) == [i \in 1..len |-> 64 + i]

Messages == { Text(len) : len \in 0..MaxLen }

\* Faulty variant: right is taken as the last position, not one past it.
SubstringInclusiveEnd(s, left, right) ==
    LET lo == Min(left, right)
        hi == IF left > right THEN left ELSE right
        r  == Min(hi + 1, Len(s))
    IN  IF lo >= Len(s) THEN <<>> ELSE [i \in 1..(r - lo) |-> s[lo + i]]

\* String::substring(left, right): the characters at the 0-based positions
\* left .. right-1, with the indices swapped when left > right, the empty
\* string when left is past the end, and right clipped to the length.
Substring(s, left, right) ==
    LET lo == Min(left, right)
        hi == IF left > right THEN left ELSE right
        r  == Min(hi, Len(s))
    IN  IF lo >= Len(s) THEN <<>> ELSE [i \in 1..(r - lo) |-> s[lo + i]]

\* ------------------------------------------------------------------- state

VARIABLES
    matrixWidth,          \* matrix.width() of the sketch's display
    fontWidth,            \* font.width of the sketch's font
    animMaxChars,         \* the animMaxChars the sketch passes
    heap,                 \* the AsyncScrollingMessage objects allocated so far
    pc,                   \* "idle": in the sketch; "while": at the loop test
    message,              \* generateMessages: the message argument
    screenChars,          \* generateMessages: locals of the running call
    maxFullyScrollChars,
    maxShownChars,
    needsContinue,
    am,
    last,
    start,
    end,
    chains,               \* the generateMessages calls that have returned
    lastCall,             \* the call that completed last
    inserts               \* number of insertNext calls made

locals == <<message, screenChars, maxFullyScrollChars, maxShownChars,
            needsContinue, am, last, start, end>>

config == <<matrixWidth, fontWidth, animMaxChars>>

vars == <<matrixWidth, fontWidth, animMaxChars, heap, pc, message,
          screenChars, maxFullyScrollChars, maxShownChars, needsContinue, am,
          last, start, end, chains, lastCall, inserts>>

\* The private constructor: an object with the given text and flags and no
\* next message.
NewMessage(sub, hCont, iCont) ==
    [message |-> sub, hContinuation |-> hCont, iContinuation |-> iCont,
     next |-> NULL]

\* Accessors.
hasContinuation(h, p) == h[p].hContinuation
isContinuation(h, p) == h[p].iContinuation
hasNext(h, p) == h[p].next # NULL
getNext(h, p) == h[p].next

\* setNext: the heap after p->setNext(n); the call returns n.
SetNext(h, p, n) == [h EXCEPT ![p].next = n]

\* ------------------------------------------------------- generateMessages

\* The values are far below the range of size_t: no sum wraps around.

\* screenChars: characters visible on the matrix at once.
ScreenChars(width, fWidth) == width \div fWidth

\* maxFullyScrollChars: characters one animation can scroll fully.
MaxFullyScrollChars(maxChars, fWidth) == maxChars \div fWidth

\* Faulty variant: the overlap of screenChars characters is forgotten.
MaxShownCharsNoOverlap(maxFully, screen) == maxFully

\* maxShownChars: characters stored in one object.
MaxShownChars(maxFully, screen) == maxFully + screen

\* Faulty variant: a message that exactly fits is said to need more.
NeedsContinueFirstOrEqual(len, maxFully) == len >= maxFully

\* needsContinue of the first object.
NeedsContinueFirst(len, maxFully) == len > maxFully

\* Faulty variant: the object that ends the message is said to continue.
NeedsContinueNextOrEqual(e, len) == e <= len

\* needsContinue of an object made in the loop.
NeedsContinueNext(e, len) == e < len

\* end = min(message.length(), start + maxShownChars)
ChunkEnd(len, from, maxShown) == Min(len, from + maxShown)

\* Faulty variant: the cursor does not advance.
NextStartNoAdvance(from, maxFully) == from

\* Faulty variant: the cursor advances one character too far.
NextStartOneMore(from, maxFully) == from + maxFully + 1

\* start += maxFullyScrollChars
NextStart(from, maxFully) == from + maxFully

\* while (start < end)
LoopCond(from, to) == from < to

\* The frame of generateMessages when no call is running.
NoLocals ==
    /\ message' = <<>>
    /\ screenChars' = 0
    /\ maxFullyScrollChars' = 0
    /\ maxShownChars' = 0
    /\ needsContinue' = FALSE
    /\ am' = NULL
    /\ last' = NULL
    /\ start' = 0
    /\ end' = 0

\* return am: the call is recorded and its frame is gone.
Return(h, head, msg) ==
    /\ pc' = "idle"
    /\ NoLocals
    /\ chains' = Append(chains,
                        [head |-> head, count |-> Len(h) - head + 1,
                         message |-> msg])
    /\ lastCall' = [op |-> "generateMessages", self |-> NULL, arg |-> NULL,
                    ret |-> head]

\* The public generateMessages (iContinuation = false) up to the loop test:
\* the first object is made, and the call returns it when the message fits.
\* A call is made only while the heap has room for one object per character
\* of the message.
GenerateMessages(msg) ==
    /\ pc = "idle"
    /\ Len(heap) + (IF Len(msg) = 0 THEN 1 ELSE Len(msg)) <= MaxHeap
    /\ LET screen   == ScreenChars(matrixWidth, fontWidth)
           maxFully == MaxFullyScrollChars(animMaxChars, fontWidth)
           maxShown == MaxShownChars(maxFully, screen)
           needs    == NeedsContinueFirst(Len(msg), maxFully)
           firstEnd == Min(Len(msg), maxShown)
           sub      == Substring(msg, 0, firstEnd)
           h        == Append(heap, NewMessage(sub, needs, FALSE))
           head     == Len(h)
       IN  /\ heap' = h
           /\ IF ~needs
              THEN /\ Return(h, head, msg)
                   /\ UNCHANGED <<config, inserts>>
              ELSE /\ pc' = "while"
                   /\ message' = msg
                   /\ screenChars' = screen
                   /\ maxFullyScrollChars' = maxFully
                   /\ maxShownChars' = maxShown
                   /\ needsContinue' = needs
                   /\ am' = head
                   /\ last' = head
                   /\ start' = maxFully
                   /\ end' = ChunkEnd(Len(msg), maxFully, maxShown)
                   /\ UNCHANGED <<config, chains, lastCall, inserts>>

\* One iteration of the loop: a continuation object is made and linked
\* after last, and the cursor advances.
WhileBody ==
    /\ pc = "while"
    /\ LoopCond(start, end)
    /\ Len(heap) < MaxHeap
    /\ LET needs   == NeedsContinueNext(end, Len(message))
           nextSub == Substring(message, start, end)
           new     == Len(heap) + 1
           h       == Append(heap, NewMessage(nextSub, needs, TRUE))
       IN  /\ heap' = SetNext(h, last, new)
           /\ last' = new
           /\ needsContinue' = needs
           /\ start' = NextStart(start, maxFullyScrollChars)
           /\ end' = ChunkEnd(Len(message),
                              NextStart(start, maxFullyScrollChars),
                              maxShownChars)
    /\ UNCHANGED <<config, pc, message, screenChars, maxFullyScrollChars,
                   maxShownChars, am, chains, lastCall, inserts>>

\* The loop test fails: return am.
WhileExit ==
    /\ pc = "while"
    /\ ~LoopCond(start, end)
    /\ Return(heap, am, message)
    /\ UNCHANGED <<config, heap, inserts>>

Generate == \E msg \in Messages : GenerateMessages(msg)

\* -------------------------------------------------------------- insertNext

\* Outcomes of the walk of insertNext other than a pointer to an object:
\* findLast became nullptr and is dereferenced, or the walk goes round a
\* cycle of objects that all have a continuation and never ends.
NullDeref == NULL
Diverges == 0 - 1

\* while (findLast->hasContinuation()) findLast = findLast->getNext();
\* A walk of more steps than there are objects has entered a cycle.
RECURSIVE Walk(_, _, _)
Walk(h, p, fuel) ==
    IF p = NULL THEN NullDeref
    ELSE IF ~hasContinuation(h, p) THEN p
    ELSE IF fuel = 0 THEN Diverges
    ELSE Walk(h, getNext(h, p), fuel - 1)

FindLast(h, nextMessage) == Walk(h, nextMessage, Len(h))

\* Faulty variant: the two setNext calls in the other order.
InsertNextSetNextFirst(h, self, nextMessage) ==
    LET findLast == FindLast(h, nextMessage)
        h1       == SetNext(h, self, nextMessage)
    IN  SetNext(h1, findLast, getNext(h1, self))

\* The heap after self->insertNext(nextMessage), when the walk ends at an
\* object: findLast->setNext(next), then setNext(nextMessage).
InsertNextHeap(h, self, nextMessage) ==
    LET findLast == FindLast(h, nextMessage)
        h1       == SetNext(h, findLast, getNext(h, self))
    IN  SetNext(h1, self, nextMessage)

\* self->insertNext(nextMessage) returns nextMessage.
InsertNextCall(self, nextMessage) ==
    /\ pc = "idle"
    /\ inserts < MaxInserts
    /\ FindLast(heap, nextMessage) \in 1..Len(heap)
    /\ heap' = InsertNextHeap(heap, self, nextMessage)
    /\ lastCall' = [op |-> "insertNext", self |-> self, arg |-> nextMessage,
                    ret |-> nextMessage]
    /\ inserts' = inserts + 1
    /\ UNCHANGED <<config, pc, locals, chains>>

\* The sketch calls insertNext on any object, with any object as argument.
InsertNext ==
    \E self \in 1..Len(heap), nextMessage \in 1..Len(heap) :
        InsertNextCall(self, nextMessage)

\* The walk does not end at an object: the call never returns (a cycle), or
\* it dereferences nullptr, which is undefined behaviour (the sketch hangs
\* or resets).
InsertNextFault ==
    \E self \in 1..Len(heap), nextMessage \in 1..Len(heap) :
        /\ pc = "idle"
        /\ FindLast(heap, nextMessage) \notin 1..Len(heap)
        /\ pc' \in (IF FindLast(heap, nextMessage) = Diverges
                    THEN {"hung"} ELSE {"hung", "reset"})
        /\ lastCall' = [op |-> "insertNextFault", self |-> self,
                        arg |-> nextMessage, ret |-> NULL]
        /\ UNCHANGED <<config, heap, locals, chains, inserts>>

\* The objects of chain c (the c-th generateMessages call) in the order the
\* call made them.
Chunks(c) == [i \in 1..chains[c].count |-> chains[c].head + i - 1]

\* The objects reached from p by following next, p first.  A walk longer
\* than the heap has entered a cycle and is cut there.
RECURSIVE Follow(_, _, _)
Follow(h, p, fuel) ==
    IF p = NULL \/ fuel = 0 THEN <<>>
    ELSE <<p>> \o Follow(h, getNext(h, p), fuel - 1)

Traverse(h, p) == Follow(h, p, Len(h) + 1)

\* Chain c is as generateMessages returned it and nothing else points into
\* it.
Fresh(h, c) ==
    /\ \A i \in 1..chains[c].count :
          getNext(h, Chunks(c)[i]) =
              (IF i < chains[c].count THEN Chunks(c)[i + 1] ELSE NULL)
    /\ \A q \in 1..Len(h) :
          getNext(h, q) # NULL /\ getNext(h, q) >= chains[c].head
              /\ getNext(h, q) < chains[c].head + chains[c].count
          => q >= chains[c].head /\ q < chains[c].head + chains[c].count

\* The sketch calls insertNext only on an object without continuation, with
\* the head of a freshly generated chain.
InsertNextTail ==
    \E self \in 1..Len(heap), c \in 1..Len(chains) :
        /\ ~hasContinuation(heap, self)
        /\ Fresh(heap, c)
        /\ InsertNextCall(self, chains[c].head)

\* The sketch has made no call yet.  Its display shows at least one
\* character (matrix.width() >= font.width) and its animation buffer holds
\* at least one (animMaxChars >= font.width).
Init ==
    /\ fontWidth \in 1..MaxFontWidth
    /\ matrixWidth \in fontWidth..MaxMatrixWidth
    /\ animMaxChars \in fontWidth..MaxAnimChars
    /\ heap = <<>>
    /\ pc = "idle"
    /\ message = <<>>
    /\ screenChars = 0
    /\ maxFullyScrollChars = 0
    /\ maxShownChars = 0
    /\ needsContinue = FALSE
    /\ am = NULL
    /\ last = NULL
    /\ start = 0
    /\ end = 0
    /\ chains = <<>>
    /\ lastCall = [op |-> "none", self |-> NULL, arg |-> NULL, ret |-> NULL]
    /\ inserts = 0

Next ==
    \/ Generate
    \/ WhileBody
    \/ WhileExit
    \/ InsertNext
    \/ InsertNextFault

Spec == Init /\ [][Next]_vars

\* generateMessages runs to completion once called: nothing else runs in
\* the single-threaded sketch while the loop is executing.
FairSpec == Spec /\ WF_vars(WhileBody) /\ WF_vars(WhileExit)

NextTail ==
    \/ Generate
    \/ WhileBody
    \/ WhileExit
    \/ InsertNextTail

SpecTail == Init /\ [][NextTail]_vars

\* ---------------------------------------------------------------- claims

\* The chunk capacity C and the visible characters S of the sketch.
C == MaxFullyScrollChars(animMaxChars, fontWidth)
S == ScreenChars(matrixWidth, fontWidth)

\* The last completed call is a generateMessages call; its message, the
\* message's length and the chain it returned, read from the heap by
\* following next from the returned pointer.
Returned == lastCall.op = "generateMessages"
RetMessage == chains[Len(chains)].message
L == Len(RetMessage)
RetChain == Traverse(heap, lastCall.ret)
RetLast == RetChain[Len(RetChain)]

\* The characters of msg at the 0-based positions lo .. hi-1.
Slice(msg, lo, hi) == [j \in 1..(hi - lo) |-> msg[lo + j]]

CeilDiv(a, b) == (a + b - 1) \div b

\* C1: in a chain returned for a message longer than C, every chunk except
\* the last has hasContinuation() true and the last has it false.
C1_AllButLastHaveContinuation ==
    (Returned /\ L > C) =>
        \A i \in 1..Len(RetChain) :
            hasContinuation(heap, RetChain[i]) = (i < Len(RetChain))

\* C4: for L > C the chain has ceil((L - C) / C) + 1 chunks, chunk i
\* (from 0) holds the characters [i*C, min(L, i*C + C + S)), the first chunk
\* is no continuation and every later chunk is one.
C4_ChunkCountAndBoundaries ==
    (Returned /\ L > C) =>
        /\ Len(RetChain) = CeilDiv(L - C, C) + 1
        /\ \A i \in 0..(Len(RetChain) - 1) :
              /\ heap[RetChain[i + 1]].message =
                     Slice(RetMessage, i * C, Min(L, i * C + C + S))
              /\ isContinuation(heap, RetChain[i + 1]) = (i > 0)

\* A chain of at least three chunks was returned whose last chunk is cut
\* off by the end of the message.
C4_Witness ==
    /\ Returned
    /\ L > C
    /\ Len(RetChain) >= 3
    /\ (Len(RetChain) - 1) * C + C + S > L

\* C5: for L <= C exactly one chunk is returned, holding the whole message,
\* with hasContinuation, isContinuation and hasNext all false; and the
\* returned head has a continuation exactly when L > C.
C5_FitsInOneChunk ==
    Returned =>
        /\ L <= C =>
              /\ RetChain = <<lastCall.ret>>
              /\ heap[lastCall.ret].message = RetMessage
              /\ ~hasContinuation(heap, lastCall.ret)
              /\ ~isContinuation(heap, lastCall.ret)
              /\ ~hasNext(heap, lastCall.ret)
        /\ hasContinuation(heap, lastCall.ret) <=> (L > C)

\* A message that exactly fills one chunk was returned.
C5_Witness ==
    /\ Returned
    /\ L = C
    /\ ~hasNext(heap, lastCall.ret)

\* A chunk's text without its leading n characters (nothing of a chunk that
\* is not longer than n).
DropOverlap(s, n) == IF Len(s) <= n THEN <<>> ELSE SubSeq(s, n + 1, Len(s))

\* The first chunk's text followed by every later chunk's text without its
\* leading S characters, from the i-th chunk of the chain on.
RECURSIVE Rejoin(_, _)
Rejoin(chain, i) ==
    IF i > Len(chain) THEN <<>>
    ELSE (IF i = 1 THEN heap[chain[i]].message
          ELSE DropOverlap(heap[chain[i]].message, S))
         \o Rejoin(chain, i + 1)

\* C6: the first chunk's text followed by every later chunk's text without
\* its leading S characters is the original message.
C6_RoundTrip == Returned => Rejoin(RetChain, 1) = RetMessage

\* A chain of at least three chunks was returned whose last chunk is
\* shorter than S and so is dropped whole.
C6_Witness ==
    /\ Returned
    /\ Len(RetChain) >= 3
    /\ Len(heap[RetLast].message) < S
    /\ Len(heap[RetChain[2]].message) > S

\* The number of message positions that are in both chunks; the characters
\* of a message are pairwise different, so a position is its character.
Chars(p) == { heap[p].message[j] : j \in 1..Len(heap[p].message) }
Overlap(p, q) == Cardinality(Chars(p) \cap Chars(q))

\* C7 as claimed: every two consecutive chunks overlap by exactly S
\* characters, the last two included.
C7_OverlapIsScreenChars ==
    Returned =>
        \A i \in 1..(Len(RetChain) - 1) :
            Overlap(RetChain[i], RetChain[i + 1]) = S

\* C7 as amended: chunks i and i+1 (from 0) overlap by min(S, L - (i+1)*C)
\* characters: by S, or by the whole of chunk i+1 when fewer than S
\* characters of the message remain from its start.
C7_OverlapIsScreenCharsOrRest ==
    Returned =>
        \A i \in 0..(Len(RetChain) - 2) :
            Overlap(RetChain[i + 1], RetChain[i + 2]) =
                Min(S, L - (i + 1) * C)

\* A chain was returned with a pair of chunks that overlap by S and a pair
\* that overlap by less.
C7_Witness ==
    /\ Returned
    /\ \E i \in 1..(Len(RetChain) - 1) :
          Overlap(RetChain[i], RetChain[i + 1]) = S
    /\ \E i \in 1..(Len(RetChain) - 1) :
          Overlap(RetChain[i], RetChain[i + 1]) < S

\* This step is a call of insertNext that returns.
InsertNextReturns == lastCall'.op = "insertNext" /\ inserts' = inserts + 1

\* Chain c is linked as generateMessages made it.
AsGenerated(h, c) == Traverse(h, chains[c].head) = Chunks(c)

\* C2: insertNext(head of B) on the last chunk of A, for chains A and B as
\* generateMessages returned them: following next from A's head visits all
\* of A in order, then all of B in order, then reaches null.
C2_TraversesAThenB ==
    [][\A a, b \in 1..Len(chains) :
          ( /\ InsertNextReturns
            /\ a # b
            /\ AsGenerated(heap, a)
            /\ AsGenerated(heap, b)
            /\ lastCall'.self = chains[a].head + chains[a].count - 1
            /\ lastCall'.arg = chains[b].head )
          => Traverse(heap', chains[a].head) = Chunks(a) \o Chunks(b)]_vars

\* C3: insertNext(N) on a chunk X that has a continuation, N being the head
\* of another chain as generateMessages returned it, puts N after the first
\* chunk E at or after X that has no continuation: X's next is unchanged,
\* E's next is N and the tail of N's run gets E's old next.
C3_InsertsAfterContinuationRun ==
    [][\A b \in 1..Len(chains) :
          ( /\ InsertNextReturns
            /\ hasContinuation(heap, lastCall'.self)
            /\ lastCall'.arg = chains[b].head
            /\ AsGenerated(heap, b)
            /\ \A i \in 1..chains[b].count : Chunks(b)[i] # lastCall'.self )
          => LET X == lastCall'.self
                 N == lastCall'.arg
                 E == FindLast(heap, X)
                 T == FindLast(heap, N)
             IN  /\ getNext(heap', X) = getNext(heap, X)
                 /\ getNext(heap', E) = N
                 /\ getNext(heap', T) = getNext(heap, E)]_vars

\* Every field of every object other than the next of the objects in
\* except is unchanged by this step.
OnlyNextOf(except) ==
    /\ Len(heap') = Len(heap)
    /\ \A p \in 1..Len(heap) :
          /\ heap'[p].message = heap[p].message
          /\ heap'[p].hContinuation = heap[p].hContinuation
          /\ heap'[p].iContinuation = heap[p].iContinuation
          /\ p \notin except => heap'[p].next = heap[p].next

NoRepeat(seq) == \A i, j \in 1..Len(seq) : seq[i] = seq[j] => i = j

\* C9: each iteration advances the cursor by C >= 1, the loop runs exactly
\* while the cursor is below the message length, the call returns, and the
\* returned chain is finite and acyclic and ends in a chunk whose next is
\* null.
C9_Terminates ==
    /\ [][(pc = "while" /\ pc' = "while") =>
             /\ start < Len(message)
             /\ start' = start + C
             /\ start' > start]_vars
    /\ [][(pc = "while" /\ pc' = "idle") => start >= Len(message)]_vars
    /\ [](Returned =>
             /\ Len(RetChain) <= Len(heap)
             /\ NoRepeat(RetChain)
             /\ getNext(heap, RetLast) = NULL)
    /\ (pc = "while") ~> (pc = "idle")

\* A call for a message of more than C characters went through the loop at
\* least twice and returned.
C9_Witness ==
    /\ Returned
    /\ pc = "idle"
    /\ L > 2 * C
    /\ Len(RetChain) >= 3

====
